---- MODULE Spec2Model ----
(***************************************************************************)
(* Model of the cloud functions of the "Health to Earn with Strava"        *)
(* plugin (src/src/services/WalletService.ts, second file of the bundle):  *)
(* authorize, link, unlink, webhook, status, subscribe, unsubscribe and    *)
(* the scheduled payout job, running against the Firestore collections     *)
(* `users` and `rewards`.                                                  *)
(*                                                                         *)
(* Every invocation of a handler is an element of the bag `reqs` while it  *)
(* is suspended on a promise (a store call or a call of the Strava API).   *)
(* The store performs a call in one step and the handler's continuation    *)
(* runs in a later step, so the calls of concurrent invocations            *)
(* interleave.  `nreq` counts the invocations started.                     *)
(* `last` is the most recently completed invocation with its response and  *)
(* `clock` the time that a handler read last (new Date()).                 *)
(***************************************************************************)
EXTENDS Integers, FiniteSets, Sequences, Bags, TLC

VARIABLES users, rewards, clock, nreq, reqs, last

vars == <<users, rewards, clock, nreq, reqs, last>>

---------------------------------------------------------------------------
(* Bounds of the model *)

\* number of invocations started in one behaviour
MaxReqs == 2
\* last time the handlers can read
MaxClock == 1
\* clock ticks per calendar day
TicksPerDay == 1

---------------------------------------------------------------------------
(* Values *)

\* the value of a missing property / an unset local (JavaScript undefined)
Undefined == "undefined"

\* e.g. "20211103-94380856" : the calendar day of clock value 0
EpochDay == 20211103

\* athlete ids issued by Strava
AthleteIds == {42, 94380856}

\* activity ids issued by Strava
ActivityIds == {7001, 7002}

\* raw address strings a caller can send
AddressInputs == {"NCZMZ4DQGQKYF", "NDEVUP43ATEX2", "not-an-address"}

\* functions.config().strava.verify_token
verify_token == "s3cr3t"

\* an optional parameter: one of S, or absent
Opt(S) == S \cup {Undefined}

\* the object holding the properties of f that are present
MkObject(f) == [k \in {x \in DOMAIN f : f[x] /= Undefined} |-> f[k]]

\* JavaScript `k in data`
Has(data, k) == k \in DOMAIN data

\* JavaScript `data[k]`
Prop(data, k) == IF k \in DOMAIN data THEN data[k] ELSE Undefined

\* JavaScript truthiness of data[k], a boolean or undefined (a missing property)
Truthy(data, k) == Has(data, k) /\ data[k] = TRUE

\* Address.createFromRawAddress(raw) returns (TRUE) or throws (FALSE)
IsValidAddress(raw) == raw \in {"NCZMZ4DQGQKYF", "NDEVUP43ATEX2"}

\* Express: the body sendStatus(code) sends
StatusText(code) ==
  CASE code = 200 -> "OK"
    [] code = 400 -> "Bad Request"
    [] code = 401 -> "Unauthorized"
    [] code = 403 -> "Forbidden"
    [] code = 404 -> "Not Found"
    [] code = 500 -> "Internal Server Error"
    [] code = 501 -> "Not Implemented"

\* '' + n and `${n}`
Str(n) == ToString(n)

\* moment(date).format('YYYYMMDD')
FormatYYYYMMDD(date) == Str(EpochDay + (date \div TicksPerDay))

\* moment(date).format('YYYY-MM-DD HH:mm:ss Z')
FormatDateTime(date) ==
  Str(EpochDay + (date \div TicksPerDay)) \o " " \o Str(date % TicksPerDay)

---------------------------------------------------------------------------
(* Invocations *)

NoResponse == [outcome |-> "none"]

\* a fresh invocation of handler fn
Invocation(fn, method, data) ==
  [fn |-> fn, method |-> method, data |-> data, pc |-> "start",
   storeCalls |-> 0, apiCalls |-> 0, storeFailed |-> FALSE,
   locals |-> <<>>]

\* response.status(code).send(body) / .json(body) / .redirect(code, body)
Send(inv, code, body) ==
  [outcome |-> "responded", inv |-> inv, status |-> code, body |-> body]

\* response.sendStatus(code)
SendStatus(inv, code) == Send(inv, code, StatusText(code))

CanStart == nreq < MaxReqs

\* a handler that responds before it suspends
Respond(resp) ==
  /\ nreq' = nreq + 1
  /\ last' = resp
  /\ UNCHANGED <<users, rewards, clock, reqs>>

\* a handler that suspends on its first promise
Suspend(inv) ==
  /\ nreq' = nreq + 1
  /\ reqs' = reqs (+) SetToBag({inv})
  /\ UNCHANGED <<users, rewards, clock, last>>

\* the suspended invocations
Pending == BagToSet(reqs)

\* reqs without invocation r
Without(r) == reqs (-) SetToBag({r})

\* reqs with invocation r resumed as r2
Resume(r, r2) == Without(r) (+) SetToBag({r2})

\* invocation r sends its response and ends
Finish(r, resp) ==
  /\ reqs' = Without(r)
  /\ last' = resp
  /\ UNCHANGED <<users, rewards, clock, nreq>>

\* new Date(): the time now, not before the time read last
Now == clock .. MaxClock

---------------------------------------------------------------------------
(* authorize *)

\* the Strava OAuth redirect target
StravaQuery(address) ==
  [url |-> "https://www.strava.com/oauth/authorize",
   response_type |-> "code", approval_prompt |-> "auto",
   scope |-> "activity:read", state |-> address]

authorize(data) ==
  LET inv == Invocation("authorize", "GET", data) IN
  /\ CanStart
  /\ IF ~Has(data, "dhealth.address")
       THEN Respond(SendStatus(inv, 400))
     ELSE IF ~IsValidAddress(data["dhealth.address"])
       THEN Respond(SendStatus(inv, 400))
     ELSE Respond(Send(inv, 301, StravaQuery(data["dhealth.address"])))

AuthorizeRequests ==
  {MkObject("dhealth.address" :> a) : a \in Opt(AddressInputs)}

---------------------------------------------------------------------------
(* unlink, unsubscribe *)

\* unlink that removes a users entry before it answers
unlinkRemoves ==
  /\ CanStart
  /\ \E k \in DOMAIN users :
       users' = [x \in DOMAIN users \ {k} |-> users[x]]
  /\ nreq' = nreq + 1
  /\ last' = SendStatus(Invocation("unlink", "GET", <<>>), 501)
  /\ UNCHANGED <<rewards, clock, reqs>>

unlink ==
  /\ CanStart
  /\ Respond(SendStatus(Invocation("unlink", "GET", <<>>), 501))

unsubscribe ==
  /\ CanStart
  /\ Respond(SendStatus(Invocation("unsubscribe", "GET", <<>>), 501))

---------------------------------------------------------------------------
(* The Firestore collections *)

\* DocumentReference.get(): a DocumentSnapshot
DocumentSnapshot(coll, key) ==
  IF key \in DOMAIN coll
    THEN [exists |-> TRUE, id |-> key, data |-> coll[key]]
    ELSE [exists |-> FALSE, id |-> key]

\* Query.get() of where(field, '==', value): a QuerySnapshot
QuerySnapshot(coll, field, value) ==
  LET docs == {k \in DOMAIN coll : Has(coll[k], field) /\ coll[k][field] = value} IN
  [empty |-> docs = {}, size |-> Cardinality(docs), docs |-> docs]

\* DocumentReference.set(doc, { merge: true })
SetMerge(coll, key, doc) ==
  LET old == IF key \in DOMAIN coll THEN coll[key] ELSE <<>>
      new == [f \in DOMAIN old \cup DOMAIN doc |->
                IF f \in DOMAIN doc THEN doc[f] ELSE old[f]]
  IN  [k \in DOMAIN coll \cup {key} |-> IF k = key THEN new ELSE coll[k]]

\* invocation r moves to pc with its locals extended by more
Step(r, pc, more) ==
  Resume(r, [r EXCEPT !.pc = pc, !.locals = more @@ @])

\* the store rejects the call invocation r waits for
StoreFails(r, pc) ==
  /\ reqs' = Resume(r, [r EXCEPT !.pc = pc, !.storeFailed = TRUE])
  /\ UNCHANGED <<users, rewards, clock, nreq, last>>

---------------------------------------------------------------------------
(* status *)

status(method, data) ==
  LET inv == Invocation("status", method, data) IN
  /\ CanStart
  /\ IF method /= "GET"
       THEN Respond(SendStatus(inv, 403))
     ELSE IF ~Has(data, "dhealth.address")
       THEN Respond(SendStatus(inv, 400))
     ELSE IF ~IsValidAddress(data["dhealth.address"])
       THEN Respond(SendStatus(inv, 400))
     ELSE Suspend([inv EXCEPT !.pc = "query", !.storeCalls = 1])

\* users.where('address', '==', ...).get() is performed
statusQuery(r) ==
  /\ r.fn = "status" /\ r.pc = "query"
  /\ \/ /\ reqs' = Step(r, "then",
             [user |-> QuerySnapshot(users, "address",
                                     r.data["dhealth.address"])])
        /\ UNCHANGED <<users, rewards, clock, nreq, last>>
     \/ StoreFails(r, "catch")

\* .then((user) => ...)
statusThen(r) ==
  /\ r.fn = "status" /\ r.pc = "then"
  /\ IF Truthy(r.locals.user, "exists")
       THEN Finish(r, SendStatus(r, 200))
       ELSE Finish(r, SendStatus(r, 404))

\* .catch((reason) => ...)
statusCatch(r) ==
  /\ r.fn = "status" /\ r.pc = "catch"
  /\ Finish(r, SendStatus(r, 500))

StatusRequests == AuthorizeRequests

---------------------------------------------------------------------------
(* link *)

\* what https://www.strava.com/oauth/token answers for an athlete
TokenResponse(id) ==
  [data |-> [athlete |-> [id |-> id],
             access_token |-> "access-" \o Str(id),
             refresh_token |-> "refresh-" \o Str(id),
             expires_at |-> 1636000000 + id]]

\* the answers of the token endpoint: one per athlete, and one without athlete
TokenResponses == {TokenResponse(id) : id \in AthleteIds} \cup {[data |-> <<>>]}

\* LinkRecord with the two tokens exchanged
LinkRecordTokensSwapped(res, address, now) ==
  [address |-> address,
   athleteId |-> res.data.athlete.id,
   accessToken |-> res.data.refresh_token,
   refreshToken |-> res.data.access_token,
   accessExpiresAt |-> res.data.expires_at,
   linkedAt |-> now]

\* the users entry link saves
LinkRecord(res, address, now) ==
  [address |-> address,
   athleteId |-> res.data.athlete.id,
   accessToken |-> res.data.access_token,
   refreshToken |-> res.data.refresh_token,
   accessExpiresAt |-> res.data.expires_at,
   linkedAt |-> now]

\* link that does not parse the state before the exchange
linkUnvalidated(data) ==
  LET inv == Invocation("link", "GET", data) IN
  /\ CanStart
  /\ IF Has(data, "error") /\ data["error"] = "access_denied"
       THEN Respond(SendStatus(inv, 403))
     ELSE IF ~Has(data, "code") \/ ~Has(data, "scope") \/ ~Has(data, "state")
       THEN Respond(SendStatus(inv, 400))
     ELSE Suspend([inv EXCEPT !.pc = "exchange", !.apiCalls = 1,
                              !.locals = [dhpAddress |-> data["state"],
                                          stravaCode |-> data["code"]]])

\* link that looks for the missing parameters before the denial
linkMissingFirst(data) ==
  LET inv == Invocation("link", "GET", data) IN
  /\ CanStart
  /\ IF ~Has(data, "code") \/ ~Has(data, "scope") \/ ~Has(data, "state")
       THEN Respond(SendStatus(inv, 400))
     ELSE IF Has(data, "error") /\ data["error"] = "access_denied"
       THEN Respond(SendStatus(inv, 403))
     ELSE IF ~IsValidAddress(data["state"])
       THEN Respond(SendStatus(inv, 400))
     ELSE Suspend([inv EXCEPT !.pc = "exchange", !.apiCalls = 1,
                              !.locals = [dhpAddress |-> data["state"],
                                          stravaCode |-> data["code"]]])

link(data) ==
  LET inv == Invocation("link", "GET", data) IN
  /\ CanStart
  /\ IF Has(data, "error") /\ data["error"] = "access_denied"
       THEN Respond(SendStatus(inv, 403))
     ELSE IF ~Has(data, "code") \/ ~Has(data, "scope") \/ ~Has(data, "state")
       THEN Respond(SendStatus(inv, 400))
     ELSE IF ~IsValidAddress(data["state"])
       THEN Respond(SendStatus(inv, 400))
     ELSE Suspend([inv EXCEPT !.pc = "exchange", !.apiCalls = 1,
                              !.locals = [dhpAddress |-> data["state"],
                                          stravaCode |-> data["code"]]])

\* axios.post(...).then((res) => ...): the exchange resolved with res, at time now
linkThen(r, res, now) ==
  /\ r.fn = "link" /\ r.pc = "exchange"
  /\ IF ~Has(res.data, "athlete")
       \* athlete.id throws, the outer catch answers
       THEN /\ now = clock
            /\ Finish(r, SendStatus([r EXCEPT !.locals = [res |-> res] @@ @], 400))
       ELSE /\ reqs' = Resume(r,
                   [r EXCEPT !.pc = "set", !.storeCalls = 1,
                             !.locals = [res |-> res, athlete |-> res.data.athlete,
                                         doc |-> LinkRecord(res, @.dhpAddress, now)]
                                        @@ @])
            /\ clock' = now
            /\ UNCHANGED <<users, rewards, nreq, last>>

\* axios.post(...).catch((reason) => ...): the exchange was rejected
linkCatch(r) ==
  /\ r.fn = "link" /\ r.pc = "exchange"
  /\ Finish(r, SendStatus(r, 400))

\* the save stores the entry under the address
linkSetKeyedByAddress(r) ==
  /\ r.fn = "link" /\ r.pc = "set"
  /\ \/ /\ users' = SetMerge(users, r.locals.doc.address, r.locals.doc)
        /\ reqs' = Step(r, "setThen", <<>>)
        /\ UNCHANGED <<rewards, clock, nreq, last>>
     \/ StoreFails(r, "setCatch")

\* DATABASE.collection('users').doc('' + athlete.id).set(...) is performed
linkSet(r) ==
  /\ r.fn = "link" /\ r.pc = "set"
  /\ \/ /\ users' = SetMerge(users, Str(r.locals.athlete.id),
                             r.locals.doc)
        /\ reqs' = Step(r, "setThen", <<>>)
        /\ UNCHANGED <<rewards, clock, nreq, last>>
     \/ StoreFails(r, "setCatch")

\* .then((user) => ...) of the set
linkSetThen(r) ==
  /\ r.fn = "link" /\ r.pc = "setThen"
  /\ Finish(r, SendStatus(r, 200))

\* linkSetCatch answering like the catch of the exchange
linkSetCatchAsExchange(r) ==
  /\ r.fn = "link" /\ r.pc = "setCatch"
  /\ Finish(r, SendStatus(r, 400))

\* .catch((reason) => ...) of the set
\* the catch of the save that logs the failure and sends nothing
linkSetCatchSilent(r) ==
  /\ r.fn = "link" /\ r.pc = "setCatch"
  /\ reqs' = Without(r)
  /\ UNCHANGED <<users, rewards, clock, nreq, last>>

linkSetCatch(r) ==
  /\ r.fn = "link" /\ r.pc = "setCatch"
  /\ Finish(r, SendStatus(r, 500))

\* the properties of f named in present
Restrict(f, present) == [k \in present |-> f[k]]

\* callbacks with code, scope and state, with and without an error, and
\* callbacks that miss one or all of code, scope and state
LinkRequests ==
  LET full == [error : {"access_denied"}, code : {"abc"},
               scope : {"activity:read"}, state : AddressInputs]
      all == {"error", "code", "scope", "state"}
  IN  {Restrict(f, present) : f \in full,
         present \in {all \ {k} : k \in all} \cup {all, {"error"}, {}}}

---------------------------------------------------------------------------
(* subscribe *)

\* what https://www.strava.com/api/v3/push_subscriptions answers
SubscriptionResponses == {[data |-> [id |-> 1]]}

subscribe ==
  /\ CanStart
  /\ Suspend([Invocation("subscribe", "POST", <<>>) EXCEPT
                !.pc = "post", !.apiCalls = 1])

\* .then((res) => ...)
subscribeThen(r, res) ==
  /\ r.fn = "subscribe" /\ r.pc = "post"
  /\ Finish(r, Send(r, 200, res.data))

\* .catch((reason) => ...)
subscribeCatch(r) ==
  /\ r.fn = "subscribe" /\ r.pc = "post"
  /\ Finish(r, SendStatus(r, 400))

---------------------------------------------------------------------------
(* webhook *)

\* webhookSubscriptionHandler that answers with the token instead of the challenge
webhookSubscriptionHandlerEchoesToken(inv) ==
  LET data == inv.data IN
  IF ~Has(data, "hub.mode") \/ ~Has(data, "hub.verify_token")
    THEN Respond(SendStatus(inv, 400))
  ELSE IF data["hub.mode"] /= "subscribe" \/ data["hub.verify_token"] /= verify_token
    THEN Respond(SendStatus(inv, 401))
  ELSE Respond(Send(inv, 200, MkObject("hub.challenge" :> data["hub.verify_token"])))

\* webhookSubscriptionHandler that rejects only when mode and token both mismatch
webhookSubscriptionHandlerAnd(inv) ==
  LET data == inv.data IN
  IF ~Has(data, "hub.mode") \/ ~Has(data, "hub.verify_token")
    THEN Respond(SendStatus(inv, 400))
  ELSE IF data["hub.mode"] /= "subscribe" /\ data["hub.verify_token"] /= verify_token
    THEN Respond(SendStatus(inv, 401))
  ELSE Respond(Send(inv, 200, MkObject("hub.challenge" :> Prop(data, "hub.challenge"))))

\* GET: the subscription validation request of Strava
webhookSubscriptionHandler(inv) ==
  LET data == inv.data IN
  IF ~Has(data, "hub.mode") \/ ~Has(data, "hub.verify_token")
    THEN Respond(SendStatus(inv, 400))
  ELSE IF data["hub.mode"] /= "subscribe" \/ data["hub.verify_token"] /= verify_token
    THEN Respond(SendStatus(inv, 401))
  ELSE Respond(Send(inv, 200, MkObject("hub.challenge" :> Prop(data, "hub.challenge"))))

\* webhookEventHandler that handles events of every object and aspect
webhookEventHandlerAnyClass(inv) ==
  LET data == inv.data IN
  IF ~Has(data, "object_type") \/ ~Has(data, "object_id")
     \/ ~Has(data, "aspect_type") \/ ~Has(data, "owner_id")
    THEN Respond(SendStatus(inv, 400))
  ELSE Suspend([inv EXCEPT !.pc = "getUser", !.storeCalls = 1])

\* POST, up to the first await: DATABASE.doc(`users/${owner_id}`).get() is issued
webhookEventHandler(inv) ==
  LET data == inv.data IN
  IF ~Has(data, "object_type") \/ ~Has(data, "object_id")
     \/ ~Has(data, "aspect_type") \/ ~Has(data, "owner_id")
    THEN Respond(SendStatus(inv, 400))
  ELSE IF data["object_type"] /= "activity" \/ data["aspect_type"] /= "create"
    THEN Respond(Send(inv, 200, "EVENT_IGNORED"))
  ELSE Suspend([inv EXCEPT !.pc = "getUser", !.storeCalls = 1])

\* webhook that hands every method but GET to the event handler
webhookElseEvent(method, data) ==
  LET inv == Invocation("webhook", method, data) IN
  /\ CanStart
  /\ IF method = "GET" THEN webhookSubscriptionHandler(inv)
     ELSE webhookEventHandler(inv)

webhook(method, data) ==
  LET inv == Invocation("webhook", method, data) IN
  /\ CanStart
  /\ IF method = "GET" THEN webhookSubscriptionHandler(inv)
     ELSE IF method = "POST" THEN webhookEventHandler(inv)
     ELSE Respond(SendStatus(inv, 403))

\* Step 1: the users entry is read
eventGetUser(r) ==
  /\ r.fn = "webhook" /\ r.pc = "getUser"
  /\ \/ /\ reqs' = Step(r, "gotUser",
             [user |-> DocumentSnapshot(users, Str(r.data["owner_id"]))])
        /\ UNCHANGED <<users, rewards, clock, nreq, last>>
     \/ StoreFails(r, "catch")

\* the index built from the athlete id alone
RewardsIdWithoutDay(formattedDate, athleteId) == Str(athleteId)

\* `${formattedDate}-${athleteId}`: the index of the rewards entry
RewardsId(formattedDate, athleteId) == formattedDate \o "-" \o Str(athleteId)

\* RewardLocals with the index built from the activity instead of the athlete
RewardLocalsKeyedByActivity(user, data, rewardedDate) ==
  [rewardedDate |-> rewardedDate,
   formattedDate |-> FormatYYYYMMDD(rewardedDate),
   address |-> user.data.address,
   athleteId |-> user.data.athleteId,
   activityId |-> data["object_id"],
   rewardsId |-> FormatYYYYMMDD(rewardedDate) \o "-" \o Str(data["object_id"])]

\* "prepares rewards entry": the locals set between Step 1 and Step 2
RewardLocals(user, data, rewardedDate) ==
  [rewardedDate |-> rewardedDate,
   formattedDate |-> FormatYYYYMMDD(rewardedDate),
   address |-> user.data.address,
   athleteId |-> user.data.athleteId,
   activityId |-> data["object_id"],
   rewardsId |-> RewardsId(FormatYYYYMMDD(rewardedDate), user.data.athleteId)]

\* the handler resumes with the users entry, at time now; Step 2 is issued
eventGotUser(r, now) ==
  /\ r.fn = "webhook" /\ r.pc = "gotUser"
  /\ IF ~Truthy(r.locals.user, "exists")
       THEN /\ now = clock
            /\ Finish(r, Send(r, 200, "EVENT_IGNORED"))
       ELSE /\ reqs' = Resume(r, [r EXCEPT !.pc = "getReward", !.storeCalls = 2,
                                   !.locals = RewardLocals(r.locals.user, r.data, now)])
            /\ clock' = now
            /\ UNCHANGED <<users, rewards, nreq, last>>

\* Step 2: the rewards entry of today is read
eventGetReward(r) ==
  /\ r.fn = "webhook" /\ r.pc = "getReward"
  /\ \/ /\ reqs' = Step(r, "gotReward",
             [reward |-> DocumentSnapshot(rewards, r.locals.rewardsId)])
        /\ UNCHANGED <<users, rewards, clock, nreq, last>>
     \/ StoreFails(r, "catch")

\* the rewards entry with the ids of athlete and activity exchanged
RewardRecordIdsSwapped(l) ==
  [address |-> l.address,
   athleteId |-> l.activityId,
   activityId |-> l.athleteId,
   isProcessed |-> FALSE,
   isConfirmed |-> FALSE,
   rewardDay |-> l.formattedDate,
   activityAt |-> FormatDateTime(l.rewardedDate)]

\* the rewards entry the handler saves
RewardRecord(l) ==
  [address |-> l.address,
   athleteId |-> l.athleteId,
   activityId |-> l.activityId,
   isProcessed |-> FALSE,
   isConfirmed |-> FALSE,
   rewardDay |-> l.formattedDate,
   activityAt |-> FormatDateTime(l.rewardedDate)]

\* eventGotReward without the bail-out on an existing rewards entry
eventGotRewardNoBailOut(r) ==
  /\ r.fn = "webhook" /\ r.pc = "gotReward"
  /\ reqs' = Resume(r, [r EXCEPT !.pc = "setReward", !.storeCalls = 3])
  /\ UNCHANGED <<users, rewards, clock, nreq, last>>

\* the handler resumes with the rewards entry; Step 3 is issued
eventGotReward(r) ==
  /\ r.fn = "webhook" /\ r.pc = "gotReward"
  /\ IF Truthy(r.locals.reward, "exists")
       THEN Finish(r, Send(r, 200, "EVENT_IGNORED"))
       ELSE /\ reqs' = Resume(r, [r EXCEPT !.pc = "setReward", !.storeCalls = 3])
            /\ UNCHANGED <<users, rewards, clock, nreq, last>>

\* Step 3: the rewards entry is saved
eventSetReward(r) ==
  /\ r.fn = "webhook" /\ r.pc = "setReward"
  /\ \/ /\ rewards' = SetMerge(rewards, r.locals.rewardsId, RewardRecord(r.locals))
        /\ reqs' = Step(r, "saved", <<>>)
        /\ UNCHANGED <<users, clock, nreq, last>>
     \/ StoreFails(r, "catch")

\* Job Successful
eventSaved(r) ==
  /\ r.fn = "webhook" /\ r.pc = "saved"
  /\ Finish(r, Send(r, 200, "EVENT_RECEIVED"))

\* eventCatch that reports the failure to Strava
eventCatchReports(r) ==
  /\ r.fn = "webhook" /\ r.pc = "catch"
  /\ Finish(r, SendStatus(r, 500))

\* the catch that acknowledges the event all the same
eventCatchAcknowledges(r) ==
  /\ r.fn = "webhook" /\ r.pc = "catch"
  /\ Finish(r, Send(r, 200, "EVENT_RECEIVED"))

\* catch (reason)
eventCatch(r) ==
  /\ r.fn = "webhook" /\ r.pc = "catch"
  /\ Finish(r, Send(r, 200, "EVENT_IGNORED"))

SubscriptionRequests ==
  {MkObject([k \in {"hub.mode", "hub.verify_token", "hub.challenge"} |->
              CASE k = "hub.mode" -> m [] k = "hub.verify_token" -> t
                [] k = "hub.challenge" -> c]) :
     m \in Opt({"subscribe", "unsubscribe"}), t \in Opt({verify_token, "guess"}),
     c \in Opt({"15f7d1a91c1f40f8a748fd134752feb3"})}

\* new activities, events of the other objects and aspects, and events that
\* miss one of the four obligatory properties
EventRequests ==
  LET created == [object_type : {"activity"}, aspect_type : {"create"},
                  object_id : ActivityIds, owner_id : AthleteIds]
      classes == [object_type : {"activity", "athlete"},
                  aspect_type : {"create", "update"},
                  object_id : {7001}, owner_id : {42}]
      all == {"object_type", "aspect_type", "object_id", "owner_id"}
  IN  created \cup classes
        \cup {Restrict(f, all \ {k}) : f \in created \cap classes, k \in all}

WebhookRequests ==
  ({"GET"} \X SubscriptionRequests) \cup ({"POST"} \X EventRequests)
    \cup ({"PUT"} \X {<<>>})

---------------------------------------------------------------------------
(* payout *)

\* the scheduled job starts: the unprocessed rewards are queried
payout ==
  /\ CanStart
  /\ Suspend([Invocation("payout", "schedule", <<>>) EXCEPT
                !.pc = "query", !.storeCalls = 1])

\* rewards.where('isProcessed', '==', false).get() is performed
payoutQuery(r) ==
  /\ r.fn = "payout" /\ r.pc = "query"
  /\ \/ /\ reqs' = Step(r, "resumed",
             [snapshot |-> QuerySnapshot(rewards, "isProcessed", FALSE)])
        /\ UNCHANGED <<users, rewards, clock, nreq, last>>
     \/ StoreFails(r, "throw")

\* the job marks as processed whatever is unprocessed when it resumes
payoutResumedSweeps(r) ==
  /\ r.fn = "payout" /\ r.pc = "resumed"
  /\ rewards' = [k \in DOMAIN rewards |-> [rewards[k] EXCEPT !.isProcessed = TRUE]]
  /\ reqs' = Without(r)
  /\ last' = [outcome |-> "returned", inv |-> r, value |-> "null"]
  /\ UNCHANGED <<users, clock, nreq>>

\* the job resumes with the snapshot and returns null
payoutResumed(r) ==
  /\ r.fn = "payout" /\ r.pc = "resumed"
  /\ IF Truthy(r.locals.snapshot, "empty")
       THEN Finish(r, [outcome |-> "returned", inv |-> r, value |-> "null"])
       ELSE Finish(r, [outcome |-> "returned", inv |-> r, value |-> "null"])

\* the await throws: the job's promise is rejected
payoutThrow(r) ==
  /\ r.fn = "payout" /\ r.pc = "throw"
  /\ Finish(r, [outcome |-> "rejected", inv |-> r])

---------------------------------------------------------------------------
(* The functions are deployed on the Firestore database of the project *)

\* the users collection found at deployment: empty, or holding the entry
\* that an earlier link of athlete 42 saved
InitialUsers ==
  {<<>>,
   SetMerge(<<>>, Str(42), LinkRecord(TokenResponse(42), "NCZMZ4DQGQKYF", 0))}

Init ==
  /\ users \in InitialUsers
  /\ rewards = <<>>
  /\ clock = 0
  /\ nreq = 0
  /\ reqs = EmptyBag
  /\ last = NoResponse

---------------------------------------------------------------------------
Next ==
  \/ \E data \in AuthorizeRequests : authorize(data)
  \/ \E data \in LinkRequests : link(data)
  \/ \E r \in Pending, res \in TokenResponses, now \in Now : linkThen(r, res, now)
  \/ \E r \in Pending : linkCatch(r)
  \/ \E r \in Pending : linkSet(r)
  \/ \E r \in Pending : linkSetThen(r)
  \/ \E r \in Pending : linkSetCatch(r)
  \/ unlink
  \/ \E method \in {"GET", "POST"}, data \in StatusRequests : status(method, data)
  \/ \E r \in Pending : statusQuery(r)
  \/ \E r \in Pending : statusThen(r)
  \/ \E r \in Pending : statusCatch(r)
  \/ subscribe
  \/ \E r \in Pending, res \in SubscriptionResponses : subscribeThen(r, res)
  \/ \E r \in Pending : subscribeCatch(r)
  \/ unsubscribe
  \/ \E req \in WebhookRequests : webhook(req[1], req[2])
  \/ \E r \in Pending : eventGetUser(r)
  \/ \E r \in Pending, now \in Now : eventGotUser(r, now)
  \/ \E r \in Pending : eventGetReward(r)
  \/ \E r \in Pending : eventGotReward(r)
  \/ \E r \in Pending : eventSetReward(r)
  \/ \E r \in Pending : eventSaved(r)
  \/ \E r \in Pending : eventCatch(r)
  \/ payout
  \/ \E r \in Pending : payoutQuery(r)
  \/ \E r \in Pending : payoutResumed(r)
  \/ \E r \in Pending : payoutThrow(r)

Spec == Init /\ [][Next]_vars


---------------------------------------------------------------------------
(* Properties *)

\* the last completed invocation sent a response
Responded == last.outcome = "responded"

\* the last completed invocation was a webhook POST with the four properties
EventAnswered ==
  /\ Responded /\ last.inv.fn = "webhook" /\ last.inv.method = "POST"
  /\ {"object_type", "object_id", "aspect_type", "owner_id"} \subseteq DOMAIN last.inv.data

\* the keys of the rewards entries of one day and one athlete
RewardsOf(day, athleteId) ==
  {k \in DOMAIN rewards :
     rewards[k].rewardDay = day /\ rewards[k].athleteId = athleteId}

\* C1: after an activity-create event of a linked athlete was handled on a day
\* without a store failure, exactly one rewards entry of that day and athlete
\* exists; and never two entries share a (rewardDay, athleteId) pair, whatever
\* the interleaving of the handlers.
C1_OneRewardPerDayAndAthlete ==
  /\ \A k1, k2 \in DOMAIN rewards :
       (/\ rewards[k1].rewardDay = rewards[k2].rewardDay
        /\ rewards[k1].athleteId = rewards[k2].athleteId) => k1 = k2
  /\ (/\ EventAnswered
      /\ ~last.inv.storeFailed
      /\ Has(last.inv.locals, "rewardsId"))
     => Cardinality(RewardsOf(last.inv.locals.formattedDate,
                              last.inv.data["owner_id"])) = 1

\* two events of one athlete and day were both saved: the answered one is not
\* the one whose activity the entry holds
C1_Witness ==
  /\ EventAnswered
  /\ last.body = "EVENT_RECEIVED"
  /\ rewards[last.inv.locals.rewardsId].activityId /= last.inv.locals.activityId

\* C2 as stated: once a rewards entry exists, no step changes any of its fields.
C2_RecordNeverChanges ==
  [][\A k \in DOMAIN rewards : rewards'[k] = rewards[k]]_vars

\* C2 as amended: a rewards entry is created or changed only by the save of an
\* event whose existence check found no entry, and it then holds that event's
\* object_id; an event whose existence check found the entry never saves.
C2_OnlyUncheckedWritersChange ==
  [][\A k \in DOMAIN rewards' :
       (k \notin DOMAIN rewards \/ rewards'[k] /= rewards[k]) =>
         \E r \in Pending :
           /\ r.fn = "webhook" /\ r.pc = "setReward"
           /\ r.locals.rewardsId = k
           /\ ~Truthy(r.locals.reward, "exists")
           /\ rewards'[k].activityId = r.data["object_id"]
           /\ CopiesIn(r, reqs') < CopiesIn(r, reqs)]_vars

\* an entry was overwritten by a concurrent event after this event saved it
C2_Witness ==
  \E r \in Pending :
    /\ r.fn = "webhook" /\ r.pc = "saved"
    /\ rewards[r.locals.rewardsId].activityId /= r.locals.activityId

\* C3: a webhook POST with the four properties is answered 200, and with
\* EVENT_IGNORED when a store call of it failed.
C3_EventAlways200 ==
  EventAnswered =>
    /\ last.status = 200
    /\ last.inv.storeFailed => last.body = "EVENT_IGNORED"

\* an event whose save was rejected by the store has been answered
C3_Witness ==
  /\ EventAnswered
  /\ last.inv.storeFailed
  /\ last.inv.storeCalls = 3
  /\ last.status = 200

\* the address-bearing parameter of an invocation
AddressParam(inv) == IF inv.fn = "link" THEN "state" ELSE "dhealth.address"

\* status, authorize or link was answered for a request whose address value
\* fails the validation
InvalidAddressAnswered ==
  /\ Responded
  /\ last.inv.fn \in {"status", "authorize", "link"}
  /\ Has(last.inv.data, AddressParam(last.inv))
  /\ ~IsValidAddress(last.inv.data[AddressParam(last.inv)])

\* C4 as stated: such a request is answered 400 without any store or API call.
C4_InvalidAddress400 ==
  InvalidAddressAnswered =>
    /\ last.status = 400
    /\ last.inv.storeCalls = 0 /\ last.inv.apiCalls = 0

\* the request is rejected by a check that precedes the address validation
RejectedEarlier(inv) ==
  \/ inv.fn = "status" /\ inv.method /= "GET"
  \/ inv.fn = "link" /\ Has(inv.data, "error") /\ inv.data["error"] = "access_denied"

\* C4 as amended: such a request is answered 403 when status is not called
\* with GET or link carries error=access_denied, and 400 otherwise; in every
\* case without any store or API call.
C4_InvalidAddressRejected ==
  InvalidAddressAnswered =>
    /\ last.status = IF RejectedEarlier(last.inv) THEN 403 ELSE 400
    /\ last.inv.storeCalls = 0 /\ last.inv.apiCalls = 0

\* link was answered 400 for a callback with code, scope and an invalid state
C4_Witness ==
  /\ InvalidAddressAnswered
  /\ last.inv.fn = "link"
  /\ {"code", "scope"} \subseteq DOMAIN last.inv.data
  /\ last.status = 400

\* C5: status, called with GET and a valid address, the store not failing,
\* answers 200 if the users collection held an entry with that address when
\* it was queried, and 404 otherwise.
C5_StatusFindsLink ==
  (/\ Responded /\ last.inv.fn = "status" /\ last.inv.method = "GET"
   /\ Has(last.inv.data, "dhealth.address")
   /\ IsValidAddress(last.inv.data["dhealth.address"])
   /\ ~last.inv.storeFailed)
  => last.status = IF last.inv.locals.user.empty THEN 404 ELSE 200

\* an event of another object or aspect was answered
IgnoredClassAnswered ==
  /\ EventAnswered
  /\ \/ last.inv.data["object_type"] /= "activity"
     \/ last.inv.data["aspect_type"] /= "create"

\* C6: an event of another object or aspect is answered 200 EVENT_IGNORED
\* by a step that makes no store call and leaves users and rewards unchanged.
C6_IgnoredClassNoWrite ==
  /\ [](IgnoredClassAnswered =>
          /\ last.status = 200 /\ last.body = "EVENT_IGNORED"
          /\ last.inv.storeCalls = 0)
  /\ [][(nreq' = nreq + 1 /\ last' /= last /\ IgnoredClassAnswered') =>
          (users' = users /\ rewards' = rewards /\ reqs' = reqs)]_vars

\* an update of an activity was answered
C6_Witness ==
  /\ IgnoredClassAnswered
  /\ last.inv.data["object_type"] = "activity"
  /\ last.body = "EVENT_IGNORED"

\* the last completed invocation was a webhook GET
SubscriptionAnswered ==
  Responded /\ last.inv.fn = "webhook" /\ last.inv.method = "GET"

\* the request carries the subscribe mode and the configured token
Verified(data) ==
  /\ Has(data, "hub.mode") /\ data["hub.mode"] = "subscribe"
  /\ Has(data, "hub.verify_token") /\ data["hub.verify_token"] = verify_token

\* C7: a verified webhook GET that carries a challenge is answered 200 with
\* exactly that challenge under the key hub.challenge.
C7_ChallengeEcho ==
  (/\ SubscriptionAnswered /\ Verified(last.inv.data)
   /\ Has(last.inv.data, "hub.challenge"))
  => /\ last.status = 200
     /\ last.body = ("hub.challenge" :> last.inv.data["hub.challenge"])

\* a verified request with a challenge was answered
C7_Witness ==
  /\ SubscriptionAnswered /\ Verified(last.inv.data)
  /\ Has(last.inv.data, "hub.challenge")
  /\ last.status = 200

\* C8: a webhook GET is answered 400 when hub.mode or hub.verify_token is
\* absent, 401 without a challenge when both are present and one does not
\* match, and 200 only when both match.
C8_OnlyVerifiedGetsChallenge ==
  SubscriptionAnswered =>
    LET data == last.inv.data IN
    /\ (~Has(data, "hub.mode") \/ ~Has(data, "hub.verify_token"))
         => last.status = 400
    /\ (Has(data, "hub.mode") /\ Has(data, "hub.verify_token") /\ ~Verified(data))
         => last.status = 401 /\ last.body = StatusText(401)
    /\ last.status = 200 => Verified(data)

\* the right mode with a wrong token was answered 401
C8_Witness ==
  /\ SubscriptionAnswered
  /\ Prop(last.inv.data, "hub.mode") = "subscribe"
  /\ Prop(last.inv.data, "hub.verify_token") = "guess"
  /\ last.status = 401

\* the save of the suspended link invocation r is performed by this step
LinkSaved(r) ==
  /\ r.fn = "link" /\ r.pc = "set"
  /\ CopiesIn([r EXCEPT !.pc = "setThen"], reqs')
       > CopiesIn([r EXCEPT !.pc = "setThen"], reqs)

\* C9: when the exchange of a link callback succeeded with athlete A, the save
\* stores under key A an entry with athleteId A, the state value as address
\* and the tokens and expiry of the exchange; and the callback is answered 200
\* when the save succeeded.
C9_LinkStoresRecord ==
  /\ [][\A r \in Pending : LinkSaved(r) =>
          LET res == r.locals.res
              key == Str(res.data.athlete.id)
          IN  /\ key \in DOMAIN users'
              /\ users'[key].athleteId = res.data.athlete.id
              /\ users'[key].address = r.data["state"]
              /\ users'[key].accessToken = res.data.access_token
              /\ users'[key].refreshToken = res.data.refresh_token
              /\ users'[key].accessExpiresAt = res.data.expires_at]_vars
  /\ []((/\ Responded /\ last.inv.fn = "link"
         /\ last.inv.storeCalls = 1 /\ ~last.inv.storeFailed)
        => last.status = 200)

\* a link callback was answered 200 and its entry is in the users collection
C9_Witness ==
  /\ Responded /\ last.inv.fn = "link" /\ last.status = 200
  /\ Str(last.inv.locals.athlete.id) \in DOMAIN users
  /\ users[Str(last.inv.locals.athlete.id)] = last.inv.locals.doc

\* C10: link answers 400 without a store call when the exchange failed, and
\* 500 when the exchange succeeded and the save failed.
C10_LinkFailures ==
  (Responded /\ last.inv.fn = "link") =>
    /\ (last.inv.apiCalls = 1 /\ ~Has(last.inv.locals, "athlete"))
         => last.status = 400 /\ last.inv.storeCalls = 0
    /\ last.inv.storeFailed => last.status = 500

\* a link callback whose save failed was answered 500
C10_Witness ==
  /\ Responded /\ last.inv.fn = "link"
  /\ last.inv.storeFailed /\ last.status = 500

\* the last completed invocation was a link callback
LinkAnswered == Responded /\ last.inv.fn = "link"

\* the callback carries error=access_denied
Denied(data) == Has(data, "error") /\ data["error"] = "access_denied"

\* C11: a link callback with error=access_denied is answered 403, whether or
\* not code, scope and state are present; one without the denial that lacks
\* code, scope or state is answered 400; both without a token exchange and
\* without a store call.
C11_LinkDeniedOrIncomplete ==
  LinkAnswered =>
    LET data == last.inv.data IN
    /\ Denied(data) =>
         /\ last.status = 403
         /\ last.inv.apiCalls = 0 /\ last.inv.storeCalls = 0
    /\ (~Denied(data) /\ ~({"code", "scope", "state"} \subseteq DOMAIN data)) =>
         /\ last.status = 400
         /\ last.inv.apiCalls = 0 /\ last.inv.storeCalls = 0

\* a denied callback that lacks code, scope and state was answered 403
C11_Witness ==
  /\ LinkAnswered /\ Denied(last.inv.data)
  /\ DOMAIN last.inv.data = {"error"}
  /\ last.status = 403

\* the last completed invocation was a run of the payout job that returned
PayoutReturned ==
  /\ last.outcome = "returned" /\ last.inv.fn = "payout"
  /\ Has(last.inv.locals, "snapshot")

\* C12: when a run of the payout job that found rewards entries with
\* isProcessed false has returned, each entry it found has isProcessed true.
C12_PayoutMarksProcessed ==
  (PayoutReturned /\ ~last.inv.locals.snapshot.empty) =>
    \A k \in last.inv.locals.snapshot.docs : rewards[k].isProcessed = TRUE

\* invocation r takes a step and ends with it
Ends(r) == CopiesIn(r, reqs') < CopiesIn(r, reqs)

\* C13: a run of the payout job whose query found no rewards entry with
\* isProcessed false makes one store call, the query, returns null, and the
\* step that ends it leaves users and rewards unchanged.
C13_EmptyPayoutNoWrite ==
  /\ []((PayoutReturned /\ last.inv.locals.snapshot.empty) =>
          /\ last.value = "null"
          /\ last.inv.storeCalls = 1 /\ ~last.inv.storeFailed)
  /\ [][\A r \in Pending :
          (/\ r.fn = "payout" /\ r.pc = "resumed" /\ Ends(r)
           /\ r.locals.snapshot.empty)
          => (users' = users /\ rewards' = rewards)]_vars

\* a run returned that had found nothing, while an entry saved since its
\* query is unprocessed
C13_Witness ==
  /\ PayoutReturned /\ last.inv.locals.snapshot.empty
  /\ \E k \in DOMAIN rewards : rewards[k].isProcessed = FALSE

\* the response is the one of invocation inv
ResponseOf(resp, inv) ==
  /\ resp.outcome = (IF inv.fn = "payout" THEN resp.outcome ELSE "responded")
  /\ resp.outcome /= "none"
  /\ resp.inv.fn = inv.fn /\ resp.inv.method = inv.method
  /\ ToString(resp.inv.data) = ToString(inv.data)

\* the suspended invocation r resumes: the call it waits for is performed or
\* fails, or the continuation of its settled call runs
Settle(r) ==
  \/ \E res \in TokenResponses, now \in Now : linkThen(r, res, now)
  \/ linkCatch(r) \/ linkSet(r) \/ linkSetThen(r) \/ linkSetCatch(r)
  \/ statusQuery(r) \/ statusThen(r) \/ statusCatch(r)
  \/ \E res \in SubscriptionResponses : subscribeThen(r, res)
  \/ subscribeCatch(r)
  \/ eventGetUser(r)
  \/ \E now \in Now : eventGotUser(r, now)
  \/ eventGetReward(r) \/ eventGotReward(r)
  \/ eventSetReward(r) \/ eventSaved(r) \/ eventCatch(r)
  \/ payoutQuery(r) \/ payoutResumed(r) \/ payoutThrow(r)

\* the most steps a suspended invocation at pc can still take
StepsLeft(pc) ==
  CASE pc \in {"exchange", "gotReward"} -> 3
    [] pc \in {"set", "query", "setReward"} -> 2
    [] pc = "getReward" -> 4
    [] pc = "gotUser" -> 5
    [] pc = "getUser" -> 6
    [] OTHER -> 1

\* the suspended invocations, each counted as often as it is suspended
Suspended == BagCardinality(reqs)

\* what identifies a response: who sent it from where, and its status
Sent(resp) ==
  IF resp.outcome = "none" THEN <<"none">>
  ELSE <<resp.outcome, resp.inv.fn, resp.inv.method, resp.inv.pc,
         resp.inv.storeCalls, resp.inv.apiCalls, resp.inv.storeFailed,
         IF resp.outcome = "responded" THEN resp.status ELSE 0>>

\* no response is sent by the step
NothingSent == Sent(last') = Sent(last) /\ last' = last

\* C14: a step that starts an invocation either answers it at once, with an
\* HTTP response, or suspends it and sends nothing; a step that resumes a
\* suspended invocation either ends it and sends the response of that
\* invocation, or sends nothing and leaves it with fewer steps to its end;
\* and every suspended invocation can resume, whatever the outcome of the call
\* it waits for. So each invocation ends after at most six resumptions, and it
\* sends its one response by the step that ends it.
C14_ExactlyOneResponse ==
  /\ [][IF nreq' = nreq + 1
          THEN IF Suspended' = Suspended
                 THEN last'.outcome = "responded" /\ last'.inv.pc = "start"
                 ELSE NothingSent
          ELSE \E r \in Pending :
                 /\ Ends(r)
                 /\ IF Suspended' < Suspended
                      THEN ResponseOf(last', r)
                      ELSE /\ NothingSent
                           /\ \E r2 \in BagToSet(reqs') :
                                /\ CopiesIn(r2, reqs') > CopiesIn(r2, reqs)
                                /\ r2.fn = r.fn
                                /\ StepsLeft(r2.pc) < StepsLeft(r.pc)]_vars
  /\ [](\A r \in Pending : ENABLED Settle(r))

\* a link callback whose exchange and save both succeeded was answered while
\* another invocation is suspended
C14_Witness ==
  /\ LinkAnswered /\ last.inv.apiCalls = 1 /\ last.inv.storeCalls = 1
  /\ reqs /= EmptyBag

\* C15 as stated: no two users entries of different athletes hold the same
\* address.
C15_AddressUnique ==
  \A k1, k2 \in DOMAIN users :
    users[k1].address = users[k2].address => k1 = k2

\* C15 as amended: every users entry is stored under the id of its athlete, so
\* an athlete has at most one entry, and the address of the entry is one that
\* passed the validation.
C15_OneLinkPerAthlete ==
  \A k \in DOMAIN users :
    /\ k = Str(users[k].athleteId)
    /\ IsValidAddress(users[k].address)

\* a link callback was answered 200 and its entry shares its address with
\* the entry of another athlete
C15_Witness ==
  /\ LinkAnswered /\ last.status = 200
  /\ \E k1, k2 \in DOMAIN users :
       /\ k1 /= k2
       /\ k1 = Str(last.inv.locals.athlete.id)
       /\ users[k1].address = users[k2].address

\* the locals of the events that have built their index
Indexed ==
  {r.locals : r \in {x \in Pending : x.fn = "webhook" /\ Has(x.locals, "rewardsId")}}
    \cup (IF EventAnswered /\ Has(last.inv.locals, "rewardsId")
            THEN {last.inv.locals} ELSE {})

\* over the days and the athlete ids of the model, two pairs yield the same
\* index exactly when they are the same pair
InjectiveOnInputs ==
  \A d1, d2 \in 0 .. MaxClock, a1, a2 \in AthleteIds :
    (RewardsId(FormatYYYYMMDD(d1), a1) = RewardsId(FormatYYYYMMDD(d2), a2))
      <=> (FormatYYYYMMDD(d1) = FormatYYYYMMDD(d2) /\ a1 = a2)

\* C16: the index of a rewards entry is a function of the formatted day and
\* the athlete id that is injective: over the days and athlete ids of the
\* model, two pairs yield the same index exactly when they are the same pair;
\* two events have built the same index exactly when they agree on day and
\* athlete; and an event's index is the key of a rewards entry exactly when
\* the entry is of the event's day and athlete.
C16_RewardsIdInjective ==
  /\ InjectiveOnInputs
  /\ \A l1, l2 \in Indexed :
       (l1.rewardsId = l2.rewardsId)
         <=> (l1.formattedDate = l2.formattedDate /\ l1.athleteId = l2.athleteId)
  /\ \A l \in Indexed, k \in DOMAIN rewards :
       (l.rewardsId = k)
         <=> (rewards[k].rewardDay = l.formattedDate
              /\ rewards[k].athleteId = l.athleteId)

\* an event of athlete 42 was answered EVENT_RECEIVED on the day after the one
\* of which the athlete has an entry: the two entries have different keys
C16_Witness ==
  /\ EventAnswered /\ last.body = "EVENT_RECEIVED"
  /\ \E k \in DOMAIN rewards :
       /\ k /= last.inv.locals.rewardsId
       /\ rewards[k].athleteId = last.inv.locals.athleteId
       /\ rewards[k].rewardDay /= last.inv.locals.formattedDate

\* C17: no step removes a key from the users or the rewards collection; and
\* unlink and unsubscribe answer 501 without a store call.
C17_NothingDeleted ==
  /\ [][/\ DOMAIN users \subseteq DOMAIN users'
        /\ DOMAIN rewards \subseteq DOMAIN rewards']_vars
  /\ []((Responded /\ last.inv.fn \in {"unlink", "unsubscribe"}) =>
          /\ last.status = 501
          /\ last.inv.storeCalls = 0)

\* unlink was answered while both collections hold an entry
C17_Witness ==
  /\ Responded /\ last.inv.fn = "unlink" /\ last.status = 501
  /\ DOMAIN users /= {} /\ DOMAIN rewards /= {}

\* an activity-create event was answered whose owner had no users entry when
\* the handler looked it up
UnknownOwnerAnswered ==
  /\ EventAnswered /\ ~IgnoredClassAnswered
  /\ Has(last.inv.locals, "user")
  /\ ~Truthy(last.inv.locals.user, "exists")

\* C18: an activity-create event whose owner has no users entry is answered
\* 200 EVENT_IGNORED after the one store call that looked the owner up, and
\* the step that answers it leaves the rewards collection unchanged; every
\* rewards entry has the athleteId of an existing users entry and is stored
\* under its rewardDay, "-" and its athleteId.
C18_RewardsOfLinkedAthletes ==
  /\ [](UnknownOwnerAnswered =>
          /\ last.status = 200 /\ last.body = "EVENT_IGNORED"
          /\ last.inv.storeCalls = 1)
  /\ [](\A k \in DOMAIN rewards :
          /\ Str(rewards[k].athleteId) \in DOMAIN users
          /\ k = rewards[k].rewardDay \o "-" \o Str(rewards[k].athleteId))
  /\ [][\A r \in Pending :
          (/\ r.fn = "webhook" /\ r.pc = "gotUser" /\ Ends(r)
           /\ ~Truthy(r.locals.user, "exists"))
          => rewards' = rewards]_vars

\* an event of an athlete without users entry was answered while the rewards
\* collection holds the entry of a linked athlete
C18_Witness ==
  /\ UnknownOwnerAnswered
  /\ Str(last.inv.data["owner_id"]) \notin DOMAIN users
  /\ DOMAIN rewards /= {}

\* an activity-create event was answered whose existence check found a
\* rewards entry (found = TRUE) or found none (found = FALSE)
CheckedAnswered(found) ==
  /\ EventAnswered /\ ~IgnoredClassAnswered
  /\ Has(last.inv.locals, "reward")
  /\ Truthy(last.inv.locals.reward, "exists") = found

\* C19 as stated: an event answered EVENT_RECEIVED has its rewards entry in
\* the collection; and of the events of one day and athlete the one whose
\* existence check found no entry (the first, when they are delivered one after
\* another) is answered EVENT_RECEIVED and the ones that found the entry (the
\* later ones) EVENT_IGNORED.
C19_FirstReceivedLaterIgnored ==
  /\ (EventAnswered /\ last.body = "EVENT_RECEIVED") =>
       /\ Has(last.inv.locals, "rewardsId")
       /\ last.inv.locals.rewardsId \in DOMAIN rewards
  /\ CheckedAnswered(FALSE) => last.body = "EVENT_RECEIVED"
  /\ CheckedAnswered(TRUE) => last.body = "EVENT_IGNORED"

\* C19 as amended: an event answered EVENT_RECEIVED made its three store
\* calls, none of which failed, and its rewards entry is in the collection;
\* an event whose existence check found the entry is answered EVENT_IGNORED;
\* one whose check found no entry is answered EVENT_RECEIVED if its save
\* succeeded and EVENT_IGNORED, leaving no entry behind, if its save failed.
C19_ReceivedOnlyAfterSave ==
  /\ (EventAnswered /\ last.body = "EVENT_RECEIVED") =>
       /\ last.inv.storeCalls = 3 /\ ~last.inv.storeFailed
       /\ CheckedAnswered(FALSE)
       /\ last.inv.locals.rewardsId \in DOMAIN rewards
  /\ CheckedAnswered(TRUE) => last.body = "EVENT_IGNORED"
  /\ CheckedAnswered(FALSE) =>
       last.body = IF last.inv.storeFailed THEN "EVENT_IGNORED"
                   ELSE "EVENT_RECEIVED"

\* the first event of a day and athlete was answered EVENT_IGNORED because
\* its save failed, and the collection has no entry of that day and athlete
C19_Witness ==
  /\ CheckedAnswered(FALSE)
  /\ last.inv.storeFailed /\ last.body = "EVENT_IGNORED"
  /\ last.inv.locals.rewardsId \notin DOMAIN rewards

\* C20: webhook answers 403 to a method that is neither GET nor POST, and
\* status answers 403 to a method other than GET, both without a store call;
\* authorize makes no store call and answers 301 when the address is present
\* and valid.
C20_RejectedWithoutStore ==
  Responded =>
    /\ (last.inv.fn = "webhook" /\ last.inv.method \notin {"GET", "POST"}) =>
         last.status = 403 /\ last.inv.storeCalls = 0
    /\ (last.inv.fn = "status" /\ last.inv.method /= "GET") =>
         last.status = 403 /\ last.inv.storeCalls = 0
    /\ last.inv.fn = "authorize" =>
         /\ last.inv.storeCalls = 0
         /\ (/\ Has(last.inv.data, "dhealth.address")
             /\ IsValidAddress(last.inv.data["dhealth.address"]))
            => last.status = 301

\* webhook was answered 403 for a PUT
C20_Witness ==
  /\ Responded /\ last.inv.fn = "webhook" /\ last.inv.method = "PUT"
  /\ last.status = 403
====
